---- MODULE Spec2Model ----
(***************************************************************************)
(* Publish queue and retry engine of the Reddit -> X relay bot.            *)
(*                                                                         *)
(* One run of main() is one tick: process_posts() takes one item, either   *)
(* the oldest retryable row of pending_posts or the next unseen post of    *)
(* the stored json_batches (after an optional fresh fetch), hands it to    *)
(* post_to_twitter() and updates seen_posts / pending_posts from the       *)
(* (success, fatal) pair it returns.  Ticks are serialized by the external *)
(* scheduler; a tick can be killed between any two of its steps, and a     *)
(* store transaction can fail and roll back.                               *)
(***************************************************************************)
EXTENDS Integers, Sequences, FiniteSets, TLC

\* ------------------------------------------------------------------ bounds
NumPosts == 2       \* post ids of the content source: 1..NumPosts
MaxTicks == 3       \* runs of main() explored
MaxBatchLen == 2    \* posts returned by one fetch
MaxFetches == 1     \* fetches of the source that return posts
MaxTextLen == 285   \* characters of a post's text, and of its URL
MaxCalls == 3       \* calls into proxy_manager.py by one process

\* ------------------------------------------------------- program constants
MAX_JSON_BATCHES == 2   \* queue_manager.py: stored batches
MaxAttempts == 3        \* main.py get_pending_posts: WHERE attempts < 3
TweetBudget == 280      \* main.py process_posts: characters of a tweet
UNSET == -1             \* the sentinel _UNSET: "not yet resolved"
ProxySlots == 2         \* PROXY_HOST, PROXY_HOST_2
TruncateBudget == 277   \* main.py process_posts: limit = 277 - len(post_url)

Posts == 1..NumPosts
None == 0

VARIABLES
    seen,       \* seen_posts: set of post ids
    pending,    \* pending_posts: set of rows [post_id, attempts, last_attempt]
    batches,    \* json_batches: set of rows [batch_id, fetched_at, posts, total_posts, remaining_posts]
    batch_seq,  \* AUTOINCREMENT counter of json_batches.batch_id
    tweets,     \* the publish target: tweets[p] = successful create_tweet calls for p
    now,        \* CURRENT_TIMESTAMP, advanced once per run of main()
    pc,         \* position of the running tick: "idle", "extract", "post", "result"
    src,        \* where the tick took its item from: "pending", "new", "none"
    cur,        \* id of the item the tick works on (None when there is none)
    out,        \* path post_to_twitter returned on ("none" outside "result")
    media,      \* what became of the item's media in that call: "none" (no
                \* media), "ok", "partial" (some images skipped), "failed"
    files,      \* local scratch files on disk
    arg,        \* the latest direct call of a function: its name and inputs
    ret,        \* what that call returned
    proxy_manager,  \* globals of proxy_manager.py in the running process:
                \* [PROXY_LIST, cached_proxy], with the proxies it tested
    calls,      \* post_to_twitter invocations of the running tick
    last,       \* summary of the latest finished tick
    rejected,   \* history: ids for which post_to_twitter returned fatal=True
    streak      \* history: [id, n]: the latest n calls of post_to_twitter were
                \* all for id and each returned (False, False)

vars == <<seen, pending, batches, batch_seq, tweets, now, pc, src, cur, out, media,
          files, arg, ret, proxy_manager, calls, last, rejected, streak>>

\* ---------------------------------------------------------------- the posts
\* A post of the source, as process_posts sees it: video_path, img_paths and
\* the composed text are functions of the post.
HasVideo(p) == p % 4 = 1
HasImages(p) == p % 4 = 2
HasText(p) == p % 4 \in {1, 3}

\* ----------------------------------------------------------- pending_posts
\* DELETE FROM pending_posts WHERE post_id = ?
remove_pending_post(pend, id) == {r \in pend : r.post_id # id}

\* (mutant) the seen mark without the DELETE of the pending row
mark_post_as_seen_KeepsRow(s, pend, id) == [seen |-> s \cup {id}, pending |-> pend]

\* (mutant) seen_posts overwritten by the new id
mark_post_as_seen_Replaces(s, pend, id) ==
    [seen |-> {id}, pending |-> {r \in pend : r.post_id # id}]

\* (mutant) a second mark of an id takes it out again
mark_post_as_seen_Toggles(s, pend, id) ==
    [seen |-> IF id \in s THEN s \ {id} ELSE s \cup {id},
     pending |-> {r \in pend : r.post_id # id}]

\* One transaction: INSERT OR IGNORE INTO seen_posts(post_id);
\*                  DELETE FROM pending_posts WHERE post_id = ?
mark_post_as_seen(s, pend, id) ==
    [seen |-> s \cup {id}, pending |-> {r \in pend : r.post_id # id}]

\* SELECT 1 FROM seen_posts WHERE post_id = ?
is_post_seen(s, id) == id \in s

\* (mutant) the insert with a wrong attempts literal
save_pending_post_WrongAttempts(pend, id, ts) ==
    {[post_id |-> id, attempts |-> MaxAttempts + 1, last_attempt |-> ts]}

\* (mutant) DELETE ... WHERE post_id = ? in place of the unconditional DELETE
save_pending_post_DeletesOwnRow(pend, id, ts) ==
    {r \in pend : r.post_id # id} \cup
    {[post_id |-> id, attempts |-> 0, last_attempt |-> ts]}

\* (mutant) the INSERT alone, without the DELETE
save_pending_post_InsertOnly(pend, id, ts) ==
    pend \cup {[post_id |-> id, attempts |-> 0, last_attempt |-> ts]}

\* DELETE FROM pending_posts; INSERT ... VALUES (?, ?, ?, ?, 0, CURRENT_TIMESTAMP)
save_pending_post(pend, id, ts) ==
    {[post_id |-> id, attempts |-> 0, last_attempt |-> ts]}

\* (mutant) ORDER BY last_attempt DESC
RECURSIVE OrderByLastAttempt_Newest(_)
OrderByLastAttempt_Newest(rows) ==
    IF rows = {} THEN <<>>
    ELSE LET r == CHOOSE x \in rows :
                    \A y \in rows :
                        \/ x.last_attempt > y.last_attempt
                        \/ /\ x.last_attempt = y.last_attempt
                           /\ x.post_id <= y.post_id
         IN <<r>> \o OrderByLastAttempt_Newest(rows \ {r})

\* Rows sorted by last_attempt ASC (ties: by post_id, SQLite's rowid order is
\* not modelled since the table never holds two rows).
RECURSIVE OrderByLastAttempt(_)
OrderByLastAttempt(rows) ==
    IF rows = {} THEN <<>>
    ELSE LET r == CHOOSE x \in rows :
                    \A y \in rows :
                        \/ x.last_attempt < y.last_attempt
                        \/ /\ x.last_attempt = y.last_attempt
                           /\ x.post_id <= y.post_id
         IN <<r>> \o OrderByLastAttempt(rows \ {r})

\* (mutant) the filter of the query inverted
get_pending_posts_WrongFilter(pend) ==
    OrderByLastAttempt({r \in pend : r.attempts >= MaxAttempts})

\* SELECT ... FROM pending_posts WHERE attempts < 3 ORDER BY last_attempt ASC
get_pending_posts(pend) ==
    OrderByLastAttempt({r \in pend : r.attempts < MaxAttempts})

\* ------------------------------------------------------------ json_batches
\* (mutant) ORDER BY fetched_at DESC
RECURSIVE OrderByFetchedAt_Newest(_)
OrderByFetchedAt_Newest(rows) ==
    IF rows = {} THEN <<>>
    ELSE LET r == CHOOSE x \in rows :
                    \A y \in rows :
                        \/ x.fetched_at > y.fetched_at
                        \/ /\ x.fetched_at = y.fetched_at
                           /\ x.batch_id >= y.batch_id
         IN <<r>> \o OrderByFetchedAt_Newest(rows \ {r})

\* Rows sorted by fetched_at ASC (rows of one timestamp in batch_id order).
RECURSIVE OrderByFetchedAt(_)
OrderByFetchedAt(rows) ==
    IF rows = {} THEN <<>>
    ELSE LET r == CHOOSE x \in rows :
                    \A y \in rows :
                        \/ x.fetched_at < y.fetched_at
                        \/ /\ x.fetched_at = y.fetched_at
                           /\ x.batch_id <= y.batch_id
         IN <<r>> \o OrderByFetchedAt(rows \ {r})

\* The first n elements of a sequence (SQL LIMIT n).
Limit(sq, n) == SubSeq(sq, 1, IF n < Len(sq) THEN n ELSE Len(sq))

Range(sq) == {sq[i] : i \in 1..Len(sq)}

\* add_json_batch: with MAX_JSON_BATCHES or more rows stored, delete the
\* (count - MAX_JSON_BATCHES + 1) oldest ones, then insert the new batch.
add_json_batch(bs, posts, id, ts) ==
    LET count == Cardinality(bs)
        old_batches ==
            IF count >= MAX_JSON_BATCHES
            THEN Range(Limit(OrderByFetchedAt(bs), count - MAX_JSON_BATCHES + 1))
            ELSE {}
    IN (bs \ old_batches) \cup
       {[batch_id |-> id, fetched_at |-> ts, posts |-> posts,
         total_posts |-> Len(posts), remaining_posts |-> Len(posts)]}

\* (mutant) the first post of the list, seen or not
FirstUnseen_IgnoresSeen(posts, s) == IF Len(posts) > 0 THEN 1 ELSE 0

\* Index of the first post of a list that is not in seen_posts (0: none).
FirstUnseen(posts, s) ==
    IF \E i \in 1..Len(posts) : posts[i] \notin s
    THEN CHOOSE i \in 1..Len(posts) :
            /\ posts[i] \notin s
            /\ \A j \in 1..(i - 1) : posts[j] \in s
    ELSE 0

\* get_next_unposted_post: scan the batches oldest first; a batch without an
\* unseen post is deleted; the first unseen post found is returned after
\* remaining_posts is decremented, and its batch is deleted when that
\* reaches 0.
RECURSIVE ScanBatches(_, _, _)
ScanBatches(todo, bs, s) ==
    IF todo = <<>> THEN [batches |-> bs, post |-> None]
    ELSE LET batch == Head(todo)
             i == FirstUnseen(batch.posts, s)
             new_remaining == batch.remaining_posts - 1
         IN IF i # 0
            THEN [batches |->
                      IF new_remaining <= 0
                      THEN bs \ {batch}
                      ELSE (bs \ {batch}) \cup
                           {[batch EXCEPT !.remaining_posts = new_remaining]},
                  post |-> batch.posts[i]]
            ELSE ScanBatches(Tail(todo), bs \ {batch}, s)

get_next_unposted_post(bs, s) == ScanBatches(OrderByFetchedAt(bs), bs, s)

\* --------------------------------------------------------- post_to_twitter
\* The publish step: create_tweet is reached with text or media_ids, and
\* returns, raises a TweepyException (unrecoverable or not) or raises
\* something else; with neither text nor media there is nothing to tweet.
\* On the unrecoverable TweepyException the handler calls
\* remove_pending_post, and a database error raised there leaves
\* post_to_twitter ("tweet_fatal_remove_failed").
TweetPaths(hasText, hasMedia) ==
    IF hasText \/ hasMedia
    THEN {"tweeted", "tweet_fatal", "tweet_retry", "tweet_exception",
          "tweet_fatal_remove_failed"}
    ELSE {"nothing"}

\* Scratch files of the media pipeline.
TempVideo == "temp_video.mp4"
TempAudio == "temp_audio.mp4"
TempMerged == "temp_video_merged.mp4"
TempImage == "temp_image_0.jpg"

\* The exits of download_reddit_video_ytdlp_auth and of its fallback
\* try_manual_audio_merge: the error message returned ("none" with the
\* file name) and the scratch files on disk at the return. The fallback
\* is entered with temp_video.mp4 present (downloaded without audio, or
\* partly) or absent (yt-dlp raised before writing).
VideoDownloads ==
    {[err |-> "none", left |-> {TempVideo}],
     [err |-> "yt_dlp not installed", left |-> {}],
     [err |-> "too_long", left |-> {}],
     [err |-> "download_failed_no_file", left |-> {}],
     [err |-> "404 Client Error", left |-> {}],
     [err |-> "Read timed out", left |-> {}],
     [err |-> "503 Server Error: Service Unavailable", left |-> {}],
     [err |-> "audio_not_found_fatal", left |-> {}],
     [err |-> "merge_failed", left |-> {TempVideo}],
     [err |-> "merge_failed", left |-> {TempVideo, TempMerged}],
     [err |-> "No such file or directory: ffmpeg", left |-> {TempVideo, TempAudio}]}
    \cup
    {[err |-> e, left |-> v] :
        e \in {"invalid_post_url", "proxy_endpoint_not_supported_fatal",
               "json_fetch_failed", "no_video_metadata", "no_fallback_url"},
        v \in {{}, {TempVideo}}}

\* any(k in err.lower() for k in fatal_errors), on the messages above.
IsFatalDownloadError(err) ==
    err \in {"404 Client Error", "503 Server Error: Service Unavailable",
             "audio_not_found_fatal", "no_video_metadata", "invalid_post_url",
             "proxy_endpoint_not_supported_fatal"}

\* The path post_to_twitter takes on a failed download with message err.
DownloadPath(err) ==
    IF err = "too_long" THEN "too_long"
    ELSE IF IsFatalDownloadError(err) THEN "download_fatal"
    ELSE "download_retry"

\* A run of post_to_twitter: the path it leaves on, what became of the
\* media, the scratch files it leaves and those it removes.
Run(path, m, left, cleaned) ==
    [path |-> path, media |-> m, left |-> left, cleaned |-> cleaned]

\* The video branch as if a failed download were skipped like a failed
\* image and the tweet went out with the text.
VideoRuns_PublishesWithoutVideo(p) ==
    {Run(path, "failed", {}, {}) : path \in TweetPaths(HasText(p), FALSE)}
    \cup
    {Run(path, "ok", {}, {TempVideo}) : path \in TweetPaths(HasText(p), TRUE)}

\* The video branch. remove_pending_post is called before each fatal
\* return; when it raises inside the outer try, "except Exception" turns
\* the failure into (False, False) ("remove_failed").
VideoRuns(p) ==
    {Run("proxy_offline", "failed", {}, {})}
    \cup
    UNION {LET paths == IF DownloadPath(d.err) = "download_retry"
                        THEN {"download_retry"}
                        ELSE {DownloadPath(d.err), "remove_failed"}
           IN {Run(path, "failed", d.left,
                   IF d.err = "audio_not_found_fatal" THEN {TempVideo} ELSE {}) :
                   path \in paths} :
           d \in {v \in VideoDownloads : v.err # "none"}}
    \cup
    {Run(path, "failed", {}, {TempVideo}) :
        path \in {"upload_fatal", "upload_retry", "remove_failed"}}
    \cup
    {Run(path, "ok", {}, {TempVideo}) : path \in TweetPaths(HasText(p), TRUE)}

\* The image branch: an image that fails to download or to upload is
\* logged and skipped, and the tweet goes out with the media ids collected
\* ("partial": some, "failed": none). download_media leaves its file when
\* the transfer breaks after open(); an uploaded or upload-failed file is
\* removed.
ImageRuns(p) ==
    {Run(path, "ok", {}, {TempImage}) : path \in TweetPaths(HasText(p), TRUE)}
    \cup
    {Run(path, "partial", left, {}) :
        path \in TweetPaths(HasText(p), TRUE), left \in {{}, {TempImage}}}
    \cup
    {Run(path, "failed", left, {}) :
        path \in TweetPaths(HasText(p), FALSE), left \in {{}, {TempImage}}}

PostToTwitterRuns(p) ==
    IF HasVideo(p) THEN VideoRuns(p)
    ELSE IF HasImages(p) THEN ImageRuns(p)
    ELSE {Run(path, "none", {}, {}) : path \in TweetPaths(HasText(p), FALSE)}

\* The paths post_to_twitter can leave on for a post: the video branch
\* (proxy check, download, upload), the image branch (each image may fail
\* to download or upload, so media_ids may stay empty), then the tweet.
PostToTwitterPaths(p) == {r.path : r \in PostToTwitterRuns(p)}

\* (mutant) without the "except Exception" clause of post_to_twitter
Raises_Unexpected(path) == path \in {"tweet_fatal_remove_failed", "tweet_exception"}

\* The path leaves post_to_twitter by an exception rather than a return.
Raises(path) == path = "tweet_fatal_remove_failed"

\* A store operation failed on the path.
StoreFailed(path) == path \in {"remove_failed", "tweet_fatal_remove_failed"}

\* ------------------------------------------------------ the retry classifier
\* Three of the ten fatal_markers, and the phrases a response body or an
\* exception message is made of here: the markers and one that is none.
FatalMarkers == {"duration", "unsupported", "403 forbidden"}
Phrases == FatalMarkers \cup {"rate limit exceeded"}

\* HTTP status of the response an exception carries (0: no response).
StatusCodes == {0, 400, 401, 403, 404, 429, 503}

\* The exceptions post_to_twitter can catch: a TweepyException or not, the
\* status and body of its response and its message, as the phrases they
\* contain. tweepy builds the message of an HTTP error from "<status>
\* <reason>", so its 403 always reads "403 Forbidden ...".
Exceptions ==
    {e \in [tweepy : BOOLEAN, code : StatusCodes, body : SUBSET Phrases,
            msg : SUBSET Phrases] :
        /\ e.code = 0 => e.body = {}
        /\ (e.tweepy /\ e.code = 403) => "403 forbidden" \in e.msg}

\* (mutant) every 400 or 403 is unrecoverable, whatever its body
is_unrecoverable_tweepy_error_ByStatus(exc) ==
    \/ exc.code \in {400, 403}
    \/ exc.msg \cap FatalMarkers # {}

\* _is_unrecoverable_tweepy_error(exc): a marker in the body of a 400 or
\* 403 response, or a marker in str(exc).
is_unrecoverable_tweepy_error(exc) ==
    \/ exc.code # 0 /\ exc.code \in {400, 403} /\ exc.body \cap FatalMarkers # {}
    \/ exc.msg \cap FatalMarkers # {}

\* The fatal flag post_to_twitter returns on an exception: the handler of
\* the video upload classifies any Exception (post_id is always given),
\* the outer handlers classify a TweepyException and return (False, False)
\* on anything else.
HandlerFatal(where, exc) ==
    IF where = "upload" THEN is_unrecoverable_tweepy_error(exc)
    ELSE exc.tweepy /\ is_unrecoverable_tweepy_error(exc)

\* The (success, fatal) pair returned on a path.
Success(path) == path = "tweeted"
\* (mutant) an offline proxy counted among the fatal outcomes
Fatal_ProxyOffline(path) ==
    path \in {"too_long", "download_fatal", "upload_fatal", "tweet_fatal", "proxy_offline"}

Fatal(path) == path \in {"too_long", "download_fatal", "upload_fatal", "tweet_fatal"}

\* remove_pending_post(post_id) is called on every fatal path (post_id is
\* always passed by process_posts).
RemovesPending(path) == Fatal(path)

Outcome(path) ==
    IF Success(path) THEN "success" ELSE IF Fatal(path) THEN "fatal" ELSE "retry"

\* ------------------------------------------------------------ the fetches
\* Lists of distinct posts a fetch of the subreddit listing can return.
FetchLists ==
    {sq \in UNION {[1..n -> Posts] : n \in 1..MaxBatchLen} :
        \A i, j \in 1..Len(sq) : i # j => sq[i] # sq[j]}

\* proxy_manager.py before the process imports it.
NotImported ==
    [PROXY_LIST |-> <<>>, cached_proxy |-> UNSET, tested |-> <<>>, loaded |-> FALSE,
     ncalls |-> 0]

NoTick == [id |-> None, src |-> "none", res |-> "none", calls |-> 0]

Init ==
    /\ seen = {}
    /\ pending = {}
    /\ batches = {}
    /\ batch_seq = 0
    /\ tweets = [p \in Posts |-> 0]
    /\ now = 0
    /\ pc = "idle"
    /\ src = "none"
    /\ cur = None
    /\ out = "none"
    /\ media = "none"
    /\ files = {}
    /\ arg = [fn |-> "none"]
    /\ ret = [fn |-> "none"]
    /\ proxy_manager = NotImported
    /\ calls = 0
    /\ last = NoTick
    /\ rejected = {}
    /\ streak = [id |-> None, n |-> 0]

\* The tick is over: process_posts returned (or the run died) with result res.
EndTick(res) ==
    /\ pc' = "idle"
    /\ src' = "none"
    /\ cur' = None
    /\ out' = "none"
    /\ media' = "none"
    /\ calls' = 0
    /\ last' = [id |-> cur, src |-> src, res |-> res, calls |-> calls]

\* process_posts, pending branch: get_pending_posts() is non-empty and its
\* first row is the item of this tick.
StartPending ==
    /\ pc = "idle"
    /\ now < MaxTicks
    /\ get_pending_posts(pending) # <<>>
    /\ now' = now + 1
    /\ cur' = Head(get_pending_posts(pending)).post_id
    /\ src' = "pending"
    /\ pc' = "post"
    /\ calls' = 0
    /\ out' = "none"
    /\ UNCHANGED <<seen, pending, batches, batch_seq, tweets, media, files, arg, ret, proxy_manager, last,
                   rejected, streak>>

\* process_posts, discovery branch, first half of extractContent: with the
\* proxy available and a non-empty fetch, add_json_batch stores the fetch.
StartDiscover ==
    /\ pc = "idle"
    /\ now < MaxTicks
    /\ get_pending_posts(pending) = <<>>
    /\ now' = now + 1
    /\ \E proxy_available \in BOOLEAN,
          posts \in (IF batch_seq < MaxFetches THEN FetchLists ELSE {}) \cup {<<>>} :
          IF proxy_available /\ posts # <<>>
          THEN /\ batch_seq' = batch_seq + 1
               /\ batches' = add_json_batch(batches, posts, batch_seq + 1, now + 1)
          ELSE UNCHANGED <<batches, batch_seq>>
    /\ src' = "new"
    /\ cur' = None
    /\ pc' = "extract"
    /\ calls' = 0
    /\ out' = "none"
    /\ UNCHANGED <<seen, pending, tweets, media, files, arg, ret, proxy_manager, last, rejected, streak>>

\* (mutant) the first post of a stored batch is taken, seen or not
ExtractSelect_AnyStored ==
    /\ pc = "extract"
    /\ IF batches # {}
       THEN /\ \E b \in batches : cur' = b.posts[1]
            /\ pc' = "post"
            /\ UNCHANGED <<src, out, media, calls, last>>
       ELSE EndTick("none")
    /\ UNCHANGED <<seen, pending, batches, batch_seq, tweets, now, files, arg, ret, proxy_manager,
                   rejected, streak>>

\* Second half of extractContent and the loop of process_posts over its
\* result: get_next_unposted_post picks the post; a post that is seen is
\* skipped, and without a post the tick ends.
ExtractSelect ==
    /\ pc = "extract"
    /\ LET got == get_next_unposted_post(batches, seen)
       IN /\ batches' = got.batches
          /\ IF got.post # None /\ ~is_post_seen(seen, got.post)
             THEN /\ cur' = got.post
                  /\ pc' = "post"
                  /\ UNCHANGED <<src, out, media, calls, last>>
             ELSE EndTick("none")
    /\ UNCHANGED <<seen, pending, batch_seq, tweets, now, files, arg, ret, proxy_manager, rejected, streak>>

\* The counters the model keeps about the run (tweets sent, failures in a
\* row) count up to the horizon MaxTicks, one step per tick.
Count(n) == IF n < MaxTicks THEN n + 1 ELSE n

\* The effects of a returning run of post_to_twitter on item id.
Returned(run, id) ==
    /\ out' = run.path
    /\ media' = run.media
    /\ tweets' = IF Success(run.path)
                 THEN [tweets EXCEPT ![id] = Count(@)] ELSE tweets
    /\ pending' = IF RemovesPending(run.path)
                  THEN remove_pending_post(pending, id) ELSE pending
    /\ rejected' = IF Fatal(run.path) THEN rejected \cup {id} ELSE rejected
    /\ streak' = IF Outcome(run.path) # "retry" THEN [id |-> None, n |-> 0]
                 ELSE IF streak.id = id THEN [streak EXCEPT !.n = Count(@)]
                 ELSE [id |-> id, n |-> 1]

\* post_to_twitter(content, img_paths, video_path, post_id) runs and
\* returns, or raises: the exception leaves process_posts and main() logs it.
PostToTwitter ==
    /\ pc = "post"
    /\ \E run \in PostToTwitterRuns(cur) :
          IF Raises(run.path)
          THEN /\ EndTick(IF StoreFailed(run.path) THEN "store_error" ELSE "raised")
               /\ UNCHANGED <<tweets, pending, rejected, streak>>
          ELSE /\ Returned(run, cur)
               /\ calls' = calls + 1
               /\ pc' = "result"
               /\ UNCHANGED <<src, cur, last>>
    /\ UNCHANGED <<seen, batches, batch_seq, now, files, arg, ret, proxy_manager>>

\* (mutant) a new item that failed fatally is queued for a retry
StoreAfter_FatalSaved(s, pend, from, id, path, ts) ==
    IF Success(path) THEN mark_post_as_seen(s, pend, id)
    ELSE IF from = "pending" THEN [seen |-> s, pending |-> pend]
    ELSE [seen |-> s, pending |-> save_pending_post(pend, id, ts)]

\* StoreAfter without the write on a successful retry of a pending item.
StoreAfter_PendingSuccessKept(s, pend, from, id, path, ts) ==
    IF from = "pending" THEN [seen |-> s, pending |-> pend]
    ELSE IF Success(path) \/ Fatal(path) THEN mark_post_as_seen(s, pend, id)
    ELSE [seen |-> s, pending |-> save_pending_post(pend, id, ts)]

\* (mutant) a failed retry of a pending item counts the attempt on its row
StoreAfter_RetryCounted(s, pend, from, id, path, ts) ==
    IF Success(path) THEN mark_post_as_seen(s, pend, id)
    ELSE IF from = "pending"
         THEN [seen |-> s,
               pending |-> {IF r.post_id = id
                            THEN [r EXCEPT !.attempts = @ + 1, !.last_attempt = ts]
                            ELSE r : r \in pend}]
    ELSE IF Fatal(path) THEN mark_post_as_seen(s, pend, id)
    ELSE [seen |-> s, pending |-> save_pending_post(pend, id, ts)]

\* What process_posts writes after post_to_twitter returned on `path` for
\* item id taken from `from`: [seen, pending] after the tick.
StoreAfter(s, pend, from, id, path, ts) ==
    IF Success(path) THEN mark_post_as_seen(s, pend, id)
    ELSE IF from = "pending" THEN [seen |-> s, pending |-> pend]
    ELSE IF Fatal(path) THEN mark_post_as_seen(s, pend, id)
    ELSE [seen |-> s, pending |-> save_pending_post(pend, id, ts)]

\* process_posts after post_to_twitter returned, to its return.
Finish ==
    /\ pc = "result"
    /\ LET db == StoreAfter(seen, pending, src, cur, out, now)
       IN /\ seen' = db.seen
          /\ pending' = db.pending
    /\ EndTick(Outcome(out))
    /\ UNCHANGED <<batches, batch_seq, tweets, now, files, arg, ret, proxy_manager, rejected, streak>>

\* The store transaction process_posts runs after post_to_twitter raises
\* (database locked, disk full): it rolls back and the exception ends the
\* tick in main().
StoreWriteFails ==
    /\ pc = "result"
    /\ StoreAfter(seen, pending, src, cur, out, now) #
           [seen |-> seen, pending |-> pending]
    /\ EndTick("aborted")
    /\ UNCHANGED <<seen, pending, batches, batch_seq, tweets, now, files, arg, ret, proxy_manager, rejected,
                   streak>>

\* extractContent raises after its first half (a database error in
\* get_queue_stats or get_next_unposted_post): process_posts logs it and
\* returns.
ExtractRaises ==
    /\ pc = "extract"
    /\ EndTick("error")
    /\ UNCHANGED <<seen, pending, batches, batch_seq, tweets, now, files, arg, ret, proxy_manager, rejected,
                   streak>>

\* The run is killed (job timeout, SIGKILL) between two steps of the tick.
Interrupt ==
    /\ pc # "idle"
    /\ EndTick("aborted")
    /\ UNCHANGED <<seen, pending, batches, batch_seq, tweets, now, files, arg, ret, proxy_manager, rejected,
                   streak>>

Next ==
    \/ StartPending
    \/ StartDiscover
    \/ ExtractSelect
    \/ ExtractRaises
    \/ PostToTwitter
    \/ Finish
    \/ StoreWriteFails
    \/ Interrupt

Spec == Init /\ [][Next]_vars

\* ------------------------------------------------- ticks scheduled for ever
\* main() is started again and again by its scheduler.  The ticks past the
\* horizon MaxTicks are followed with the clock standing at MaxTicks: the
\* timestamps they write are not told apart, and the fetches the model
\* follows all fall within the horizon.
StartPendingLate ==
    /\ pc = "idle"
    /\ now = MaxTicks
    /\ get_pending_posts(pending) # <<>>
    /\ cur' = Head(get_pending_posts(pending)).post_id
    /\ src' = "pending"
    /\ pc' = "post"
    /\ calls' = 0
    /\ out' = "none"
    /\ UNCHANGED <<seen, pending, batches, batch_seq, tweets, now, media, files, arg, ret, proxy_manager,
                   last, rejected, streak>>

StartDiscoverLate ==
    /\ pc = "idle"
    /\ now = MaxTicks
    /\ get_pending_posts(pending) = <<>>
    /\ src' = "new"
    /\ cur' = None
    /\ pc' = "extract"
    /\ calls' = 0
    /\ out' = "none"
    /\ UNCHANGED <<seen, pending, batches, batch_seq, tweets, now, media, files, arg, ret, proxy_manager,
                   last, rejected, streak>>

\* The steps of a run in which no tick is killed and no store transaction
\* of process_posts is rolled back, and in which one fetch of the source
\* returns posts.
NextLive ==
    \/ StartPending
    \/ StartDiscover /\ batch_seq' <= 1
    \/ StartPendingLate
    \/ StartDiscoverLate
    \/ ExtractSelect
    \/ PostToTwitter
    \/ Finish

\* The scheduler keeps starting ticks and a started tick runs to its end.
SpecLive == Init /\ [][NextLive]_vars /\ WF_vars(NextLive)

\* ------------------------------------------- post_to_twitter, directly
\* post_to_twitter called with any post, as a test of the publisher would
\* call it, and followed on disk: a download overwrites the scratch file of
\* its name, and the files of `files` are those left after the call. (Spec
\* does not follow the disk.)
MediaCall ==
    /\ pc = "idle"
    /\ now < MaxTicks
    /\ now' = now + 1
    /\ \E p \in Posts : \E run \in PostToTwitterRuns(p) :
          /\ Returned(run, p)
          /\ files' = (files \ run.cleaned) \cup run.left
          /\ last' = [id |-> p, src |-> "media",
                      res |-> IF Raises(run.path) THEN "store_error"
                              ELSE Outcome(run.path),
                      calls |-> 1]
    /\ UNCHANGED <<seen, batches, batch_seq, pc, src, cur, calls, arg, ret, proxy_manager>>

SpecMedia == Init /\ [][MediaCall]_vars

\* ------------------------------------------------- the store API, directly
\* The functions of the pending/seen store called in any order with any id,
\* as a test of the store would call them; CURRENT_TIMESTAMP may advance
\* between two calls.
StoreCall(op, id) ==
    /\ now' \in {now, now + 1}
    /\ now' <= MaxTicks
    /\ last' = [id |-> id, src |-> "store", res |-> op, calls |-> 0]
    /\ UNCHANGED <<batches, batch_seq, tweets, pc, src, cur, out, media, files, arg, ret, proxy_manager, calls,
                   rejected, streak>>

StoreSave ==
    \E id \in Posts :
        /\ StoreCall("save", id)
        /\ pending' = save_pending_post(pending, id, now')
        /\ UNCHANGED seen

StoreRemove ==
    \E id \in Posts :
        /\ StoreCall("remove", id)
        /\ pending' = remove_pending_post(pending, id)
        /\ UNCHANGED seen

StoreMark ==
    \E id \in Posts :
        /\ StoreCall("mark", id)
        /\ seen' = mark_post_as_seen(seen, pending, id).seen
        /\ pending' = mark_post_as_seen(seen, pending, id).pending

StoreNext == StoreSave \/ StoreRemove \/ StoreMark

SpecStore == Init /\ [][StoreNext]_vars

\* ------------------------------------------------- the functions, directly
\* Pure functions of the program called with inputs of bounded sets, as a
\* unit test would call them: `arg` holds the call, `ret` its result, and
\* the program's state is left alone. One call is made per behaviour.
state == <<seen, pending, batches, batch_seq, tweets, now, pc, src, cur, out, media,
           files, proxy_manager, calls, last, rejected, streak>>

\* Contents pending_posts can have under its schema (post_id is the
\* primary key): any attempts count up to MaxAttempts, any timestamp.
PendingTables ==
    UNION {{{[post_id |-> p, attempts |-> g[p][1], last_attempt |-> g[p][2]] : p \in S} :
               g \in [S -> (0..MaxAttempts) \X (1..MaxTicks)]} :
           S \in SUBSET Posts}

\* get_pending_posts() on a table, and the row process_posts takes from
\* its result (pending[0]).
GetPendingCall ==
    /\ arg.fn = "none"
    /\ \E t \in PendingTables :
          LET rows == get_pending_posts(t)
          IN /\ arg' = [fn |-> "get_pending_posts", rows |-> t]
             /\ ret' = [fn |-> "get_pending_posts", val |-> rows,
                        first |-> IF rows # <<>> THEN Head(rows).post_id ELSE None]
    /\ UNCHANGED state

\* mark_post_as_seen(id) on any store contents, once and a second time on
\* what the first call left.
MarkSeenCall ==
    /\ arg.fn = "none"
    /\ \E s \in SUBSET Posts, t \in PendingTables, id \in Posts :
          LET once == mark_post_as_seen(s, t, id)
          IN /\ arg' = [fn |-> "mark_post_as_seen", seen |-> s, pending |-> t, id |-> id]
             /\ ret' = [fn |-> "mark_post_as_seen", once |-> once,
                        twice |-> mark_post_as_seen(once.seen, once.pending, id)]
    /\ UNCHANGED state

\* An exception caught by post_to_twitter, in the video upload block or by
\* the outer handlers.
ExceptCall ==
    /\ arg.fn = "none"
    /\ \E where \in {"upload", "outer"}, exc \in Exceptions :
          /\ arg' = [fn |-> "except", where |-> where, exc |-> exc]
          /\ ret' = [fn |-> "except",
                     unrecoverable |-> is_unrecoverable_tweepy_error(exc),
                     fatal |-> HandlerFatal(where, exc)]
    /\ UNCHANGED state

\* A failed video download classified by post_to_twitter.
DownloadCall ==
    /\ arg.fn = "none"
    /\ \E d \in {v \in VideoDownloads : v.err # "none"} :
          /\ arg' = [fn |-> "download", err |-> d.err]
          /\ ret' = [fn |-> "download", path |-> DownloadPath(d.err)]
    /\ UNCHANGED state

\* len(s[:k]) for a string of n characters.
SliceLen(n, k) ==
    IF k >= 0 THEN (IF n < k THEN n ELSE k)
    ELSE (IF n + k > 0 THEN n + k ELSE 0)

\* Length of the text process_posts composes from a post whose stripped
\* title and content have lc characters together and whose URL has lu.
ComposeLen(lc, lu) ==
    IF lc > 0 /\ lu > 0
    THEN LET limit == TruncateBudget - lu
         IN IF lc > limit
            THEN SliceLen(lc, limit) + 4 + lu     \* "...\n" and the URL
            ELSE lc + 1 + lu                       \* "\n" and the URL
    ELSE SliceLen(IF lc > 0 THEN lc ELSE lu, TweetBudget)

ComposeCall ==
    /\ arg.fn = "none"
    /\ \E lc \in 0..MaxTextLen, lu \in 0..MaxTextLen :
          /\ arg' = [fn |-> "compose", content |-> lc, url |-> lu]
          /\ ret' = [fn |-> "compose", len |-> ComposeLen(lc, lu)]
    /\ UNCHANGED state

FnNext ==
    \/ GetPendingCall
    \/ MarkSeenCall
    \/ ExceptCall
    \/ DownloadCall
    \/ ComposeCall

SpecFn == Init /\ [][FnNext]_vars

\* ------------------------------------------------- the batch queue, directly
\* The functions of queue_manager.py and extractContent called one after the
\* other on the store, in any order, as the ticks of any run call them:
\* arg and ret record the last call.  seen_posts changes between the calls
\* by mark_post_as_seen.
QueueRest == <<pending, tweets, pc, src, cur, out, media, files, proxy_manager, calls,
               last, rejected, streak>>

\* add_json_batch(posts, subreddit): the new row takes the next batch_id
\* and the current time as fetched_at.
AddBatchCall ==
    /\ now < MaxTicks
    /\ \E posts \in FetchLists :
          /\ batches' = add_json_batch(batches, posts, batch_seq + 1, now + 1)
          /\ arg' = [fn |-> "add_json_batch", posts |-> posts]
    /\ ret' = [fn |-> "add_json_batch", batch_id |-> batch_seq + 1]
    /\ batch_seq' = batch_seq + 1
    /\ now' = now + 1
    /\ UNCHANGED <<seen, QueueRest>>

\* get_next_unposted_post()
NextPostCall ==
    /\ LET got == get_next_unposted_post(batches, seen)
       IN /\ batches' = got.batches
          /\ ret' = [fn |-> "get_next_unposted_post", post |-> got.post]
    /\ arg' = [fn |-> "get_next_unposted_post"]
    /\ UNCHANGED <<seen, batch_seq, now, QueueRest>>

\* mark_post_as_seen(id), of any post.
SeenCall ==
    /\ \E id \in Posts :
          /\ id \notin seen
          /\ seen' = mark_post_as_seen(seen, pending, id).seen
          /\ arg' = [fn |-> "mark_post_as_seen", id |-> id]
    /\ ret' = [fn |-> "mark_post_as_seen"]
    /\ UNCHANGED <<batches, batch_seq, now, QueueRest>>

\* (mutant) the subreddit is fetched and stored whatever the proxy check says
ExtractCall_FetchesOffline ==
    /\ \E proxy_available \in BOOLEAN :
       \E posts \in IF now < MaxTicks THEN FetchLists \cup {<<>>} ELSE {<<>>} :
          LET online == posts # <<>>
              stored == IF online
                        THEN add_json_batch(batches, posts, batch_seq + 1, now + 1)
                        ELSE batches
              got == get_next_unposted_post(stored, seen)
          IN /\ batches' = got.batches
             /\ batch_seq' = IF online THEN batch_seq + 1 ELSE batch_seq
             /\ now' = IF online THEN now + 1 ELSE now
             /\ arg' = [fn |-> "extractContent", proxy_available |-> proxy_available,
                        posts |-> posts]
             /\ ret' = [fn |-> "extractContent", post |-> got.post,
                        added |-> IF online THEN 1 ELSE 0]
    /\ UNCHANGED <<seen, QueueRest>>

\* extractContent(): with the proxy check passed the subreddit is fetched
\* and a non-empty result stored by add_json_batch; then, in every case,
\* get_next_unposted_post selects.  ret.added counts the batches it added.
ExtractCall ==
    /\ \E proxy_available \in BOOLEAN :
       \E posts \in IF proxy_available /\ now < MaxTicks
                    THEN FetchLists \cup {<<>>} ELSE {<<>>} :
          LET online == proxy_available /\ posts # <<>>
              stored == IF online
                        THEN add_json_batch(batches, posts, batch_seq + 1, now + 1)
                        ELSE batches
              got == get_next_unposted_post(stored, seen)
          IN /\ batches' = got.batches
             /\ batch_seq' = IF online THEN batch_seq + 1 ELSE batch_seq
             /\ now' = IF online THEN now + 1 ELSE now
             /\ arg' = [fn |-> "extractContent", proxy_available |-> proxy_available,
                        posts |-> posts]
             /\ ret' = [fn |-> "extractContent", post |-> got.post,
                        added |-> IF online THEN 1 ELSE 0]
    /\ UNCHANGED <<seen, QueueRest>>

QueueNext ==
    \/ AddBatchCall
    \/ NextPostCall
    \/ SeenCall
    \/ ExtractCall

SpecQueue == Init /\ [][QueueNext]_vars

\* ------------------------------------------------------- proxy_manager.py
\* The proxies are named by their slot: 1 is "Proxy 1", 2 is "Proxy 2".
Proxies == 1..ProxySlots

\* _build_proxy_list(): the slots whose PROXY_HOST_n is set, in slot order.
ProxyLists ==
    {sq \in UNION {[1..n -> Proxies] : n \in 0..ProxySlots} :
        \A i, j \in 1..Len(sq) : i < j => sq[i] < sq[j]}

\* The loop of get_available_proxy over the proxies todo: _test_proxy on
\* each in turn (True for those of `reachable`), stopping at the first True.
RECURSIVE TestLoop(_, _, _)
TestLoop(todo, reachable, tested) ==
    IF todo = <<>> THEN [val |-> None, tested |-> tested]
    ELSE IF Head(todo) \in reachable
         THEN [val |-> Head(todo), tested |-> Append(tested, Head(todo))]
         ELSE TestLoop(Tail(todo), reachable, Append(tested, Head(todo)))

\* (mutant) `if _cached_proxy:` as the cache test: a cached None is resolved again
get_available_proxy_RetestsNone(pm, reachable) ==
    IF pm.cached_proxy # UNSET /\ pm.cached_proxy # None
    THEN [pm |-> pm, val |-> pm.cached_proxy]
    ELSE LET r == TestLoop(pm.PROXY_LIST, reachable, pm.tested)
         IN [pm |-> [pm EXCEPT !.cached_proxy = r.val, !.tested = r.tested],
             val |-> r.val]

\* get_available_proxy() on the module globals pm: the globals after the
\* call and the value returned.
get_available_proxy(pm, reachable) ==
    IF pm.cached_proxy # UNSET
    THEN [pm |-> pm, val |-> pm.cached_proxy]
    ELSE IF pm.PROXY_LIST = <<>>
    THEN [pm |-> [pm EXCEPT !.cached_proxy = None], val |-> None]
    ELSE LET r == TestLoop(pm.PROXY_LIST, reachable, pm.tested)
         IN [pm |-> [pm EXCEPT !.cached_proxy = r.val, !.tested = r.tested],
             val |-> r.val]

ProxyRest == <<seen, pending, batches, batch_seq, tweets, pc, src, cur, out, media,
               files, calls, last, rejected, streak>>

\* A process starts and imports proxy_manager: _PROXY_LIST is built from the
\* environment and _cached_proxy is _UNSET.
ImportProxyManager ==
    /\ now < MaxTicks
    /\ now' = now + 1
    /\ \E list \in ProxyLists :
          proxy_manager' = [PROXY_LIST |-> list, cached_proxy |-> UNSET,
                            tested |-> <<>>, loaded |-> TRUE, ncalls |-> 0]
    /\ arg' = [fn |-> "import"]
    /\ ret' = [fn |-> "import"]
    /\ UNCHANGED ProxyRest

\* get_available_proxy() called by the process, with any proxies reachable
\* at that moment.
GetAvailableProxyCall ==
    /\ proxy_manager.loaded
    /\ proxy_manager.ncalls < MaxCalls
    /\ \E reachable \in SUBSET Proxies :
          LET r == get_available_proxy(proxy_manager, reachable)
          IN /\ proxy_manager' = [r.pm EXCEPT !.ncalls = @ + 1]
             /\ arg' = [fn |-> "get_available_proxy", reachable |-> reachable]
             /\ ret' = [fn |-> "get_available_proxy", val |-> r.val]
    /\ UNCHANGED <<now, ProxyRest>>

\* is_any_proxy_available(): get_available_proxy() is not None.
IsAnyProxyAvailableCall ==
    /\ proxy_manager.loaded
    /\ proxy_manager.ncalls < MaxCalls
    /\ \E reachable \in SUBSET Proxies :
          LET r == get_available_proxy(proxy_manager, reachable)
          IN /\ proxy_manager' = [r.pm EXCEPT !.ncalls = @ + 1]
             /\ arg' = [fn |-> "is_any_proxy_available", reachable |-> reachable]
             /\ ret' = [fn |-> "is_any_proxy_available", val |-> r.val # None]
    /\ UNCHANGED <<now, ProxyRest>>

ProxyNext ==
    \/ ImportProxyManager
    \/ GetAvailableProxyCall
    \/ IsAnyProxyAvailableCall

SpecProxy == Init /\ [][ProxyNext]_vars

\* ------------------------------------------------------------------ claims
\* Rows of pending_posts that are still eligible for a retry.
RetryableRows == {r \in pending : r.attempts < MaxAttempts}

PendingIds == {r.post_id : r \in pending}

PendingRow(id) == CHOOSE r \in pending : r.post_id = id

\* Some stored batch holds a post that is not in seen_posts.
UnseenStored == \E b \in batches : FirstUnseen(b.posts, seen) # 0

\* This step ends the tick by a kill or a failed store transaction.
Aborted ==
    /\ pc # "idle"
    /\ pc' = "idle"
    /\ last'.res \in {"aborted", "error", "store_error", "raised"}

\* C1: over all serialized ticks, interrupted and store-failing ones
\* included, create_tweet succeeds at most once for any post id.
C1_PublishedAtMostOnce == \A p \in Posts : tweets[p] <= 1

\* C2: once mark_post_as_seen(id) has completed, no later tick passes id to
\* post_to_twitter, from the pending queue or from discovery.
C2_Dedup == pc = "post" => cur \notin seen

C2_Witness == pc = "post" /\ seen # {} /\ cur \in Posts

\* C3: after a tick whose post_to_twitter returned fatal=True, for a pending
\* item as for a new one, the id is in seen_posts and has no pending row.
C3_FatalImpliesSeen ==
    (pc = "idle" /\ last.res = "fatal") =>
        (last.id \in seen /\ last.id \notin PendingIds)

\* C4: an item whose failure was classified Fatal in some tick is never
\* again selected and passed to post_to_twitter.
C4_FatalNeverResurfaces == pc = "post" => cur \notin rejected

\* C5: the first non-fatal failure of a new item leaves a pending row with
\* attempts = 1; every failed non-fatal retry of a pending row adds one to
\* its attempts and sets its last_attempt to the time of the tick.
C5_AttemptsCounted ==
    [][(pc = "result" /\ pc' = "idle" /\ last'.res = "retry") =>
          /\ cur \in {r.post_id : r \in pending'}
          /\ LET new == CHOOSE r \in pending' : r.post_id = cur
             IN IF src = "new" THEN new.attempts = 1
                ELSE /\ cur \in PendingIds
                     /\ new.attempts = PendingRow(cur).attempts + 1
                     /\ new.last_attempt = now]_vars

\* C6: after MaxAttempts consecutive retryable failures the item's pending
\* row has attempts = MaxAttempts, get_pending_posts no longer returns it,
\* it is not in seen_posts and it is not passed to post_to_twitter again.
C6_RetriesBounded ==
    streak.n >= MaxAttempts =>
        /\ pc = "idle" =>
              /\ streak.id \in PendingIds
              /\ PendingRow(streak.id).attempts = MaxAttempts
              /\ \A i \in 1..Len(get_pending_posts(pending)) :
                     get_pending_posts(pending)[i].post_id # streak.id
              /\ streak.id \notin seen
        /\ pc = "post" => cur # streak.id

\* C7: every pending row has attempts <= MaxAttempts, and the row a tick
\* takes from get_pending_posts has attempts < MaxAttempts.
C7_AtMostNAttempts ==
    /\ \A r \in pending : r.attempts <= MaxAttempts
    /\ (pc = "post" /\ src = "pending") =>
           \E r \in pending : r.post_id = cur /\ r.attempts < MaxAttempts

C7_Witness == pc = "post" /\ src = "pending" /\ streak.n >= 2

\* C8: save_pending_post for an id that has a row adds one to the row's
\* attempts on each call, and for an id without a row it inserts one.
C8_UpsertIncrements ==
    [][last'.res = "save" =>
          /\ last'.id \in {r.post_id : r \in pending'}
          /\ last'.id \in PendingIds =>
                (CHOOSE r \in pending' : r.post_id = last'.id).attempts =
                    PendingRow(last'.id).attempts + 1]_vars

\* C9: a tick that starts with a retryable pending row works on the row
\* with the oldest last_attempt; it neither runs extractContent nor
\* publishes another item.
C9_PendingPreferred ==
    [][/\ (pc = "idle" /\ pc' # "idle" /\ RetryableRows # {}) =>
             /\ pc' = "post"
             /\ src' = "pending"
             /\ cur' \in {r.post_id : r \in RetryableRows}
             /\ \A r \in RetryableRows :
                    PendingRow(cur').last_attempt <= r.last_attempt
       /\ (pc # "idle" /\ src = "pending") =>
             /\ pc' \in {"result", "idle"}
             /\ batches' = batches
             /\ batch_seq' = batch_seq
             /\ \A p \in Posts \ {cur} : tweets'[p] = tweets[p]]_vars

C9_Witness == pc = "post" /\ src = "pending" /\ UnseenStored

\* C10: no tick calls post_to_twitter more than once, and a tick that finds
\* a retryable pending row or an unseen stored post calls it exactly once.
C10_OneItemPerTick ==
    [][/\ calls' <= 1
       /\ last'.calls <= 1
       /\ (pc = "idle" /\ pc' # "idle" /\ RetryableRows # {}) => pc' = "post"
       /\ (pc = "extract" /\ UnseenStored /\ ~Aborted) =>
             (pc' = "post" /\ cur' \notin seen)
       /\ (pc = "post" /\ ~Aborted) => (pc' = "result" /\ calls' = 1)
       /\ (pc = "result" /\ ~Aborted) =>
             (pc' = "idle" /\ last'.calls = 1 /\ last'.id = cur)]_vars

C10_Witness == pc = "idle" /\ last.src = "new" /\ last.calls = 1 /\ UnseenStored

\* C11: when a tick ends with a successful publish, the item is in
\* seen_posts and has no row in pending_posts, whichever source it came
\* from.
C11_SuccessMarksSeen ==
    (pc = "idle" /\ last.res = "success") =>
        (last.id \in seen /\ last.id \notin PendingIds)

C11_Witness ==
    /\ pc = "idle"
    /\ last.res = "success"
    /\ last.src = "pending"
    /\ last.id \in seen

\* C12: an item with empty text and no materialized media is classified
\* Fatal without a publish call: the tick that finds nothing to tweet ends
\* with the item in seen_posts and without a pending row.
C12_NothingToTweetRejected ==
    [][(pc = "result" /\ out = "nothing" /\ pc' = "idle" /\ ~Aborted)
          => (cur \in seen' /\ cur \notin PendingIds')]_vars

C14_StoreFailurePropagates == ~(pc = "result" /\ StoreFailed(out))

\* C15: no failure of the media pipeline or of the publisher leaves
\* post_to_twitter as an exception: the call is left without a return only
\* by a kill of the run or by a store error.
C15_FailuresAreReturned ==
    [][(pc = "post" /\ pc' = "idle") => last'.res \in {"aborted", "store_error"}]_vars

C15_Witness ==
    /\ pc = "result"
    /\ out = "tweet_exception"
    /\ Outcome(out) = "retry"
    /\ tweets[cur] = 0

\* C16: after a call of post_to_twitter, whatever its exit path, no local
\* scratch file remains on disk.
C16_ScratchFilesDeleted == files = {}

\* C17: pending_posts holds at most one row in every reachable state:
\* save_pending_post removes every existing row before it inserts.
C17_SingleSlot == Cardinality(pending) <= 1

C17_Witness ==
    /\ last.src = "store"
    /\ last.res = "save"
    /\ seen # {}
    /\ pending = {[post_id |-> last.id, attempts |-> 0, last_attempt |-> now]}

\* The item can be selected by the next tick: it has a pending row, or it
\* is an unseen post of a stored batch.
Selectable(id) ==
    \/ id \in PendingIds
    \/ id \notin seen /\ \E b \in batches : id \in Range(b.posts)

\* C18: after a tick that was interrupted on an item, the item is fully
\* transitioned (seen) or still selectable by the next tick.
C18_InterruptedItemNotLost ==
    (pc = "idle" /\ last.res = "aborted" /\ last.id # None) =>
        (last.id \in seen \/ Selectable(last.id))

C20_CandidateIsFresh ==
    (pc = "post" /\ src = "new") => (cur \notin seen /\ cur \notin PendingIds)

C20_Witness ==
    /\ pc = "post"
    /\ src = "new"
    /\ cur \in Posts
    /\ seen # {}
    /\ rejected # {}

\* C21: get_pending_posts returns exactly the rows with attempts < 3, in
\* ascending order of last_attempt, and process_posts takes the first of
\* them (an oldest one).
C21_OldestRetryableFirst ==
    arg.fn = "get_pending_posts" =>
        LET eligible == {r \in arg.rows : r.attempts < MaxAttempts}
            v == ret.val
        IN /\ Range(v) = eligible
           /\ Len(v) = Cardinality(eligible)
           /\ \A i, j \in 1..Len(v) : i < j => v[i].last_attempt <= v[j].last_attempt
           /\ eligible = {} => ret.first = None
           /\ eligible # {} =>
                 \E r \in eligible :
                     /\ r.post_id = ret.first
                     /\ \A y \in eligible : r.last_attempt <= y.last_attempt

C21_Witness ==
    /\ arg.fn = "get_pending_posts"
    /\ Cardinality(arg.rows) = 2
    /\ Len(ret.val) = 1
    /\ \E r \in arg.rows : r.attempts = MaxAttempts /\ r.last_attempt < ret.val[1].last_attempt

\* C22: seen_posts is append-only: no step of any tick removes an id from
\* it.
C22_SeenAppendOnly == [][seen \subseteq seen']_vars

C22_Witness == pc = "idle" /\ Cardinality(seen) = 2 /\ last.res = "success"

C24_RejectionsAreFatal ==
    (arg.fn = "except" /\ arg.where = "outer" /\ arg.exc.tweepy
        /\ arg.exc.code \in {401, 403, 404}) => ret.fatal

\* A failure that is transient: a timeout, a rate limit, a 503.
TransientDownloadErrors ==
    {"Read timed out", "503 Server Error: Service Unavailable", "json_fetch_failed"}

TransientException(exc) ==
    /\ exc.code \in {0, 429, 503}
    /\ (exc.body \cup exc.msg) \cap FatalMarkers = {}

\* C25: a transient failure during the video download, the media upload or
\* the publish is classified Retryable (fatal = False).
C25_TransientIsRetryable ==
    /\ (arg.fn = "download" /\ arg.err \in TransientDownloadErrors) =>
           ret.path = "download_retry"
    /\ (arg.fn = "except" /\ TransientException(arg.exc)) => ~ret.fatal

\* C26 (as stated): a failure without a fatal marker in body and message
\* is Retryable whatever its status, and every non-Tweepy exception caught
\* in post_to_twitter yields fatal = False.
C26_Conservative ==
    arg.fn = "except" =>
        /\ (arg.exc.body \cup arg.exc.msg) \cap FatalMarkers = {} =>
               (~ret.unrecoverable /\ ~ret.fatal)
        /\ ~arg.exc.tweepy => ~ret.fatal

\* C26 (amended): as above, for the non-Tweepy exceptions the outer
\* handler catches; one caught in the video upload block is classified by
\* its message.
C26_ConservativeOuter ==
    arg.fn = "except" =>
        /\ (arg.exc.body \cup arg.exc.msg) \cap FatalMarkers = {} =>
               (~ret.unrecoverable /\ ~ret.fatal)
        /\ (~arg.exc.tweepy /\ arg.where = "outer") => ~ret.fatal

C26_Witness ==
    /\ arg.fn = "except"
    /\ arg.where = "outer"
    /\ ~arg.exc.tweepy
    /\ arg.exc.code = 403
    /\ "duration" \in arg.exc.msg
    /\ ~ret.fatal

\* C27: a new video item reported too long is Fatal: nothing is uploaded
\* or published, and after the tick the id is in seen_posts and
\* pending_posts is empty.
C27_TooLongRejected ==
    [][/\ (pc = "post" /\ pc' = "result" /\ out' = "too_long") =>
             (tweets' = tweets /\ media' = "failed" /\ Outcome(out') = "fatal")
       /\ (pc = "result" /\ out = "too_long" /\ src = "new" /\ ~Aborted) =>
             /\ pc' = "idle"
             /\ last'.res = "fatal"
             /\ cur \in seen'
             /\ pending' = {}
             /\ tweets' = tweets]_vars

C27_Witness ==
    /\ pc = "idle"
    /\ last.res = "fatal"
    /\ last.src = "new"
    /\ HasVideo(last.id)
    /\ last.id \in seen
    /\ pending = {}
    /\ tweets[last.id] = 0

\* Every post of every stored batch is in seen_posts.
NoUnseenStored == \A b \in batches : Range(b.posts) \subseteq seen

\* C28: a tick that finds neither a retryable pending row nor an unseen
\* stored post ends without error, without a call of post_to_twitter, and
\* with seen_posts and pending_posts as they were.
C28_NoOpTick ==
    [][/\ (pc = "idle" /\ pc' = "extract") => (seen' = seen /\ pending' = pending)
       /\ (pc = "extract" /\ RetryableRows = {} /\ NoUnseenStored /\ ~Aborted) =>
             /\ pc' = "idle"
             /\ last'.res = "none"
             /\ last'.calls = 0
             /\ seen' = seen
             /\ pending' = pending
             /\ tweets' = tweets]_vars

C28_Witness ==
    /\ pc = "idle"
    /\ last.res = "none"
    /\ last.src = "new"
    /\ last.calls = 0
    /\ seen # {}

\* C29: the text process_posts composes for a new post is at most 280
\* characters long, whatever the lengths of its content and URL.
C29_TextWithinBudget == arg.fn = "compose" => ret.len <= TweetBudget

\* C30: seen_posts and pending_posts are disjoint in every reachable state
\* of serialized ticks, interrupted ones included.
C30_SeenPendingDisjoint == seen \cap PendingIds = {}

C30_Witness == pc = "idle" /\ seen # {} /\ pending # {} /\ last.res = "aborted"

\* This step is the end of a tick that retried a pending entry and whose
\* post_to_twitter returned (False, False).
FailedRetry ==
    /\ pc = "result"
    /\ pc' = "idle"
    /\ src = "pending"
    /\ Outcome(out) = "retry"
    /\ last'.res = "retry"

\* C31: every pending_posts row has attempts = 0 in every reachable state;
\* no step changes attempts or last_attempt of a row that stays in the
\* table; and the end of a tick whose retry of a pending entry failed
\* non-fatally leaves pending_posts and seen_posts as they were.
C31_AttemptsStayZero ==
    /\ [](\A r \in pending : r.attempts = 0)
    /\ [][/\ \A r \in pending : \A q \in pending' :
                 r.post_id = q.post_id =>
                     /\ q.attempts = r.attempts
                     /\ q.last_attempt = r.last_attempt
          /\ FailedRetry => pending' = pending /\ seen' = seen]_vars

\* A tick retried the pending entry, failed non-fatally, and the row is
\* still there, untouched since the tick that saved it.
C31_Witness ==
    /\ pc = "idle"
    /\ last.src = "pending"
    /\ last.res = "retry"
    /\ \E r \in pending :
          r.post_id = last.id /\ r.attempts = 0 /\ r.last_attempt < now

\* From some point on every call of post_to_twitter for a pending entry
\* returns (False, False).
RetriesKeepFailing ==
    <>[][pc = "post" /\ src = "pending" =>
             pc' = "result" /\ Outcome(out') = "retry"]_vars

\* C32: while a pending entry exists a tick that starts attempts exactly
\* that entry, and no step discovers, stores or publishes another item;
\* the entry leaves pending_posts only by a fatal or a successful attempt
\* of its own, and between ticks it always leads to another call of
\* post_to_twitter on it; so if from some point on its attempts keep
\* failing non-fatally, the entry stays pending for ever and is passed to
\* post_to_twitter again and again without end.
C32_RetriedForever ==
    /\ [][/\ PendingIds # {} /\ pc = "idle" /\ pc' # "idle" =>
                 src' = "pending" /\ cur' \in PendingIds /\ pc' = "post"
          /\ PendingIds # {} =>
                 /\ batches' = batches
                 /\ batch_seq' = batch_seq
                 /\ src' # "new"
                 /\ \A q \in Posts \ PendingIds : tweets'[q] = tweets[q]
          /\ \A p \in PendingIds :
                 p \notin PendingIds' =>
                     \/ pc = "post" /\ cur = p /\ Fatal(out')
                     \/ pc = "result" /\ cur = p /\ Success(out)]_vars
    /\ \A p \in Posts :
           (pc = "idle" /\ p \in PendingIds) ~>
               (pc = "post" /\ src = "pending" /\ cur = p)
    /\ RetriesKeepFailing =>
           \A p \in Posts :
               /\ <>[](p \in PendingIds => [](p \in PendingIds))
               /\ <>[](p \in PendingIds) =>
                      []<>(pc = "post" /\ src = "pending" /\ cur = p)

\* The pending entry is being retried past the horizon, after as many
\* failures in a row as the model counts.
C32_Witness ==
    /\ pc = "post"
    /\ src = "pending"
    /\ cur \in PendingIds
    /\ now = MaxTicks
    /\ streak = [id |-> cur, n |-> MaxTicks]
    /\ last.src = "pending"
    /\ last.res = "retry"

\* This step is the end of a tick in which process_posts called
\* save_pending_post for the item of the tick.
SaveInvoked ==
    /\ pc = "result"
    /\ pc' = "idle"
    /\ src = "new"
    /\ ~Success(out)
    /\ ~Fatal(out)
    /\ last'.res = "retry"
    /\ pending' = save_pending_post(pending, cur, now)

\* C33: with ticks one after the other, save_pending_post is only invoked
\* when pending_posts is empty, and no step discards the pending row of a
\* post other than the item of the tick.
C33_SaveOnEmptyTable ==
    [][/\ SaveInvoked => pending = {}
       /\ \A r \in pending :
              r \notin pending' => pc # "idle" /\ r.post_id = cur]_vars

\* save_pending_post has just stored the item of a discovery tick.
C33_Witness ==
    /\ pc = "idle"
    /\ last.src = "new"
    /\ last.res = "retry"
    /\ pending = {[post_id |-> last.id, attempts |-> 0, last_attempt |-> now]}

\* From some point on every call of post_to_twitter for a pending entry
\* returns (True, False).
RetriesSucceed ==
    <>[][pc = "post" /\ src = "pending" =>
             pc' = "result" /\ Success(out')]_vars

\* C34: if from some point on every attempt on a pending entry succeeds,
\* then with ticks scheduled fairly an entry that is pending from then on
\* always leads to its id in seen_posts with pending_posts empty, and that
\* state always leads to a tick that discovers again.
C34_PendingEventuallySeen ==
    RetriesSucceed =>
        \A p \in Posts :
            /\ <>[](p \in PendingIds => <>(p \in seen /\ pending = {}))
            /\ <>[](p \in seen /\ pending = {} /\ pc = "idle" =>
                       <>(pc = "extract" /\ src = "new"))

\* A retry of the pending entry succeeded and the tick after it discovers.
C34_Witness ==
    /\ pc = "extract"
    /\ src = "new"
    /\ last.src = "pending"
    /\ last.res = "success"
    /\ last.id \in seen
    /\ pending = {}

\* C35: post_to_twitter takes the offline-proxy return only for an item
\* with a video reference; it returns (False, False) having downloaded,
\* uploaded and tweeted nothing and written no table; the tick then saves a
\* new item as pending and leaves a pending item pending, and the id is
\* not marked seen in either case.
C35_ProxyOfflineDefers ==
    [][/\ pc = "post" /\ out' = "proxy_offline" =>
              /\ HasVideo(cur)
              /\ pc' = "result"
              /\ Outcome(out') = "retry"
              /\ media' = "failed"
              /\ \A run \in PostToTwitterRuns(cur) :
                     run.path = "proxy_offline" => run.left = {} /\ run.cleaned = {}
              /\ tweets' = tweets
              /\ seen' = seen
              /\ pending' = pending
       /\ pc = "result" /\ out = "proxy_offline" /\ last'.res = "retry" =>
              /\ cur \notin seen'
              /\ seen' = seen
              /\ cur \in PendingIds'
              /\ src = "new" => pending' = save_pending_post(pending, cur, now)
              /\ src = "pending" => pending' = pending]_vars

\* post_to_twitter has returned from the offline-proxy check on a pending
\* video item that an earlier tick saved after a non-fatal failure.
C35_Witness ==
    /\ pc = "result"
    /\ out = "proxy_offline"
    /\ src = "pending"
    /\ HasVideo(cur)
    /\ cur \in PendingIds
    /\ cur \notin seen
    /\ tweets[cur] = 0
    /\ streak = [id |-> cur, n |-> 2]

\* The stored batches no stored batch is older than.
Oldest(bs) == {b \in bs : \A c \in bs : b.fetched_at <= c.fetched_at}

\* C36: after any sequence of calls json_batches holds at most
\* MAX_JSON_BATCHES batches; add_json_batch called with MAX_JSON_BATCHES
\* batches stored removes the one with the oldest fetched_at and no other,
\* called with fewer it removes none, and it inserts the new batch.
C36_AtMostTwoBatches ==
    /\ [](Cardinality(batches) <= MAX_JSON_BATCHES)
    /\ [][arg'.fn = "add_json_batch" /\ batch_seq' = batch_seq + 1 =>
              /\ \E new \in batches' :
                     /\ new.batch_id = batch_seq'
                     /\ new.posts = arg'.posts
                     /\ new \notin batches
                     /\ batches' \ {new} =
                            IF Cardinality(batches) = MAX_JSON_BATCHES
                            THEN batches \ Oldest(batches)
                            ELSE batches
              /\ Cardinality(batches) = MAX_JSON_BATCHES =>
                     Cardinality(Oldest(batches)) = 1]_vars

\* add_json_batch was called with two batches stored: the first batch is
\* gone, the second and the new one are stored.
C36_Witness ==
    /\ arg.fn = "add_json_batch"
    /\ batch_seq = MAX_JSON_BATCHES + 1
    /\ {b.batch_id : b \in batches} = {batch_seq - 1, batch_seq}

\* Batch b holds a post that is not in seen_posts.
HasUnseen(b) == \E i \in 1..Len(b.posts) : b.posts[i] \notin seen

\* C37: get_next_unposted_post returns the first post, in stored order,
\* that is not in seen_posts, of the oldest stored batch that holds such a
\* post; it returns no post exactly when no stored batch holds an unseen
\* post, and then it has deleted every stored batch.
C37_FirstUnseenOldestFirst ==
    [][arg'.fn = "get_next_unposted_post" =>
           /\ ret'.post = None <=> ~(\E b \in batches : HasUnseen(b))
           /\ ret'.post = None => batches' = {}
           /\ ret'.post # None =>
                  \E b \in batches :
                      /\ HasUnseen(b)
                      /\ \A c \in batches : HasUnseen(c) => b.fetched_at <= c.fetched_at
                      /\ \E i \in 1..Len(b.posts) :
                             /\ b.posts[i] = ret'.post
                             /\ b.posts[i] \notin seen
                             /\ \A j \in 1..(i - 1) : b.posts[j] \in seen
                      /\ \A c \in batches :
                             c.fetched_at < b.fetched_at => c.batch_id \notin
                                 {d.batch_id : d \in batches'}]_vars

\* The call passed over the older batch, whose posts were all seen, and
\* returned the second post of the newer one, whose first post was seen.
C37_Witness ==
    /\ arg.fn = "get_next_unposted_post"
    /\ ret.post # None
    /\ ret.post \notin seen
    /\ batch_seq = 2
    /\ \E b \in batches :
          /\ batches = {b}
          /\ b.batch_id = 2
          /\ Len(b.posts) = 2
          /\ b.posts[1] \in seen
          /\ b.posts[2] = ret.post
          /\ b.remaining_posts = 1

\* C38: get_next_unposted_post deletes a batch only when every post of the
\* batch is in seen_posts or is the post this call returns: over the ticks
\* of a run no batch that holds another unseen post is deleted by it.
C38_DeletesOnlyExhausted ==
    [][pc = "extract" /\ pc' \in {"post", "idle"} /\ batch_seq' = batch_seq =>
           \A b \in batches :
               b.batch_id \notin {c.batch_id : c \in batches'} =>
                   \A i \in 1..Len(b.posts) :
                       b.posts[i] \in seen \/ b.posts[i] = cur']_vars

\* The first unseen post, in stored order, of the oldest batch of bs that
\* holds one (None: no batch holds one).
FirstUnseenOf(bs) ==
    IF \E b \in bs : HasUnseen(b)
    THEN LET b == CHOOSE x \in bs :
                    /\ HasUnseen(x)
                    /\ \A c \in bs : HasUnseen(c) => x.fetched_at <= c.fetched_at
             i == CHOOSE k \in 1..Len(b.posts) :
                    /\ b.posts[k] \notin seen
                    /\ \A j \in 1..(k - 1) : b.posts[j] \in seen
         IN b.posts[i]
    ELSE None

\* C39: extractContent adds a batch only with the proxy available and a
\* fetch that returned posts, and then exactly one, before it selects; with
\* the proxy check failed, or the fetch failed, it adds and evicts nothing
\* and selects from the stored batches, oldest first.
C39_AddsOnlyOnline ==
    [][arg'.fn = "extractContent" =>
           LET online == arg'.proxy_available /\ arg'.posts # <<>>
               ids(bs) == {b.batch_id : b \in bs}
           IN /\ ret'.added = (IF online THEN 1 ELSE 0)
              /\ batch_seq' = batch_seq + ret'.added
              /\ ~online =>
                     /\ ids(batches') \subseteq ids(batches)
                     /\ batches' = get_next_unposted_post(batches, seen).batches
                     /\ ret'.post = FirstUnseenOf(batches)
              /\ online =>
                     LET new == [batch_id |-> batch_seq', fetched_at |-> now',
                                 posts |-> arg'.posts, total_posts |-> Len(arg'.posts),
                                 remaining_posts |-> Len(arg'.posts)]
                         kept == IF Cardinality(batches) = MAX_JSON_BATCHES
                                 THEN batches \ Oldest(batches) ELSE batches
                     IN /\ ids(batches') \subseteq ids(kept) \cup {batch_seq'}
                        /\ ret'.post = FirstUnseenOf(kept \cup {new})]_vars

\* Online, with two batches stored: the fetch was added as batch 3, and
\* the post selected is a post of the new batch, the only batch left.
C39_Witness ==
    /\ arg.fn = "extractContent"
    /\ arg.proxy_available
    /\ ret.added = 1
    /\ batch_seq = MAX_JSON_BATCHES + 1
    /\ ret.post # None
    /\ \E b \in batches :
          /\ b.batch_id = batch_seq
          /\ b.remaining_posts = b.total_posts - 1
          /\ b.posts = arg.posts
    /\ {b.batch_id : b \in batches} = {batch_seq}

\* This step is a call into proxy_manager.py by the running process.
ProxyCall ==
    /\ proxy_manager.loaded
    /\ proxy_manager'.ncalls = proxy_manager.ncalls + 1

\* C40: within one process get_available_proxy resolves the proxy at most
\* once: the first call tests the configured proxies in priority order,
\* each at most once, stops at the first reachable one and caches it (None
\* when none is reachable); every later call returns the cached value and
\* tests nothing, whatever is reachable by then.
C40_ResolvedOnce ==
    [][ProxyCall =>
           LET pm == proxy_manager
               list == pm.PROXY_LIST
               k == Len(pm'.tested)
           IN /\ pm'.PROXY_LIST = list
              /\ pm.cached_proxy # UNSET =>
                     /\ pm'.cached_proxy = pm.cached_proxy
                     /\ pm'.tested = pm.tested
                     /\ arg'.fn = "get_available_proxy" => ret'.val = pm.cached_proxy
              /\ pm.cached_proxy = UNSET =>
                     /\ pm.tested = <<>>
                     /\ pm'.cached_proxy # UNSET
                     /\ arg'.fn = "get_available_proxy" => ret'.val = pm'.cached_proxy
                     /\ k <= Len(list)
                     /\ pm'.tested = SubSeq(list, 1, k)
                     /\ \A i \in 1..(k - 1) : list[i] \notin arg'.reachable
                     /\ IF \E i \in 1..Len(list) : list[i] \in arg'.reachable
                        THEN /\ k >= 1
                             /\ list[k] \in arg'.reachable
                             /\ pm'.cached_proxy = list[k]
                        ELSE /\ k = Len(list)
                             /\ pm'.cached_proxy = None]_vars

\* The first call found proxy 1 offline and cached proxy 2; the last of the
\* later calls, made with proxy 1 reachable again, returned proxy 2 and
\* tested nothing.
C40_Witness ==
    /\ proxy_manager.ncalls = MaxCalls
    /\ proxy_manager.PROXY_LIST = <<1, 2>>
    /\ proxy_manager.tested = <<1, 2>>
    /\ proxy_manager.cached_proxy = 2
    /\ arg = [fn |-> "get_available_proxy", reachable |-> {1}]
    /\ ret.val = 2

====
